---- MODULE Spec2Model ----
(***************************************************************************)
(* Model of GrafoRutasCisternas (src/rutas_cisternas.py): a directed,      *)
(* weighted graph built by agregar_arista and queried by dijkstra.         *)
(* dijkstra is modelled at the granularity of its control flow: one step   *)
(* per iteration of the main loop (the whole for-loop over the neighbours  *)
(* included), one step for the test after the loop, one step per iteration *)
(* of the predecessor walk and one step for the return.                    *)
(* Python dicts are functions whose DOMAIN is the key set; a lookup of a   *)
(* key that is not in DOMAIN is the KeyError the interpreter raises.       *)
(***************************************************************************)
EXTENDS Integers, Sequences, FiniteSets

\* ---------------------------------------------------------------- bounds
NumNodos == 3          \* nodes 1..NumNodos can be named in agregar_arista
MaxPeso == 2           \* weights are 0..MaxPeso
MaxLlamadas == 3       \* at most this many agregar_arista calls

Nodos == 1..NumNodos
\* queries may also name one node that no agregar_arista call ever names
Consultables == 1..(NumNodos + 1)
Pesos == 0..MaxPeso

\* ------------------------------------------------------- Python sentinels
NONE == -1             \* Python None
INF == -2              \* float('inf')

\* a < b where b may be float('inf') and a is finite
MenorQue(a, b) == IF b = INF THEN TRUE ELSE a < b

VARIABLES
    grafo,            \* self.grafo: node -> list of successors (defaultdict(list))
    vertices,         \* self.vertices
    pesos,            \* self.pesos: dict keyed by <<u, v>>
    pc,               \* position of the caller / of dijkstra
    origen, destino,  \* arguments of the running (or last) dijkstra call
    distancias,       \* dict node -> label
    padre,            \* dict node -> predecessor or NONE
    visitados,        \* set of settled nodes
    cola_prioridad,   \* the heap, as the sequence of its entries in heap order
    distancia_actual, \* the entry popped last
    vertice_actual,
    camino, actual,   \* the predecessor walk
    resultado,        \* what the last dijkstra call returned or raised
    historial,        \* history: <<u, v>> -> the weights passed for it, in call order
    llamadas,         \* history: number of agregar_arista calls made
    empujes,          \* history: number of heappush-ed entries, the seed included
    orden             \* history: the nodes in the order they were settled

vars == <<grafo, vertices, pesos, pc, origen, destino, distancias, padre,
          visitados, cola_prioridad, distancia_actual, vertice_actual,
          camino, actual, resultado, historial, llamadas, empujes, orden>>

grafoVars == <<grafo, vertices, pesos, historial, llamadas>>

\* -------------------------------------------------------------- results
SinResultado == [tipo |-> "ninguno", costo |-> NONE, camino |-> <<>>, longitud |-> 0]
Inalcanzable == [tipo |-> "retorno", costo |-> NONE, camino |-> <<>>, longitud |-> 0]
ErrorClave == [tipo |-> "KeyError", costo |-> NONE, camino |-> <<>>, longitud |-> 0]
\* variant: the length counts edges instead of nodes
Ruta_aristas(c, p) == [tipo |-> "retorno", costo |-> c, camino |-> p, longitud |-> Len(p) - 1]

\* lines 66: the tuple returned for a route
Ruta(c, p) == [tipo |-> "retorno", costo |-> c, camino |-> p, longitud |-> Len(p)]

\* -------------------------------------------------------------- __init__
DictVacio == [k \in {} |-> NONE]

LocalesVacios ==
    /\ origen = NONE /\ destino = NONE
    /\ distancias = DictVacio /\ padre = DictVacio
    /\ visitados = {} /\ cola_prioridad = <<>>
    /\ distancia_actual = NONE /\ vertice_actual = NONE
    /\ camino = <<>> /\ actual = NONE
    /\ empujes = 0 /\ orden = <<>>

\* the locals of a finished call are gone
BorrarLocales ==
    /\ origen' = NONE /\ destino' = NONE
    /\ distancias' = DictVacio /\ padre' = DictVacio
    /\ visitados' = {} /\ cola_prioridad' = <<>>
    /\ distancia_actual' = NONE /\ vertice_actual' = NONE
    /\ camino' = <<>> /\ actual' = NONE
    /\ empujes' = 0 /\ orden' = <<>>

Init ==
    /\ grafo = [n \in Consultables |-> <<>>]
    /\ vertices = {}
    /\ pesos = DictVacio
    /\ historial = [p \in Nodos \X Nodos |-> <<>>]
    /\ llamadas = 0
    /\ pc = "libre"
    /\ resultado = SinResultado
    /\ LocalesVacios

\* -------------------------------------------------------- agregar_arista
DictPoner(d, k, x) == [j \in DOMAIN d \cup {k} |-> IF j = k THEN x ELSE d[j]]

\* variant: the first weight of a pair is kept
PesosTras_primera(p, u, v, peso) ==
    IF <<u, v>> \in DOMAIN p THEN p ELSE DictPoner(p, <<u, v>>, peso)

\* line 21
PesosTras(p, u, v, peso) == DictPoner(p, <<u, v>>, peso)

agregar_arista(u, v, peso) ==
    /\ pc \in {"libre", "fin"}
    /\ llamadas < MaxLlamadas
    /\ grafo' = [grafo EXCEPT ![u] = Append(@, v)]
    /\ vertices' = vertices \cup {u, v}
    /\ pesos' = PesosTras(pesos, u, v, peso)
    /\ historial' = [historial EXCEPT ![<<u, v>>] = Append(@, peso)]
    /\ llamadas' = llamadas + 1
    /\ pc' = "libre"
    /\ resultado' = SinResultado
    /\ BorrarLocales

\* -------------------------------------------------------------- heapq
\* entries are tuples <<distance, node>>, ordered as Python orders tuples
TuplaMenor(a, b) == a[1] < b[1] \/ (a[1] = b[1] /\ a[2] < b[2])

\* variant: a plain queue, the entry goes last
heappush_fifo(cola, e) == Append(cola, e)

\* heappush: the entry goes before the first entry that is not smaller
heappush(cola, e) ==
    LET antes == {i \in 1..Len(cola) : TuplaMenor(cola[i], e)}
        k == Cardinality(antes)
    IN SubSeq(cola, 1, k) \o <<e>> \o SubSeq(cola, k + 1, Len(cola))

\* ------------------------------------------------------------- dijkstra
\* lines 28-33
Iniciar(o, d) ==
    /\ pc \in {"libre", "fin"}
    /\ origen' = o /\ destino' = d
    /\ distancias' = DictPoner([v \in vertices |-> INF], o, 0)
    /\ padre' = [v \in vertices |-> NONE]
    /\ visitados' = {}
    /\ cola_prioridad' = <<<<0, o>>>>
    /\ distancia_actual' = NONE /\ vertice_actual' = NONE
    /\ camino' = <<>> /\ actual' = NONE
    /\ resultado' = SinResultado
    /\ empujes' = 1 /\ orden' = <<>>
    /\ pc' = "bucle"
    /\ UNCHANGED grafoVars

\* variant: only an unlabelled node takes a label
Mejora_soloPrimera(nueva, vieja) == vieja = INF

\* variant: <= in place of <
Mejora_le(nueva, vieja) == MenorQue(nueva, vieja) \/ nueva = vieja

\* the test of line 50
Mejora(nueva, vieja) == MenorQue(nueva, vieja)

\* lines 46-53: the for-loop over grafo[n] from position i on, on the
\* working state st = [d |-> distancias, p |-> padre, q |-> cola, e |-> empujes]
RECURSIVE Relajar(_, _, _, _)
Relajar(n, dn, i, st) ==
    IF i > Len(grafo[n]) THEN st
    ELSE LET vecino == grafo[n][i]
             peso_arista == pesos[<<n, vecino>>]
             nueva_distancia == dn + peso_arista
         IN IF Mejora(nueva_distancia, st.d[vecino])
            THEN Relajar(n, dn, i + 1,
                         [d |-> [st.d EXCEPT ![vecino] = nueva_distancia],
                          p |-> [st.p EXCEPT ![vecino] = n],
                          q |-> heappush(st.q, <<nueva_distancia, vecino>>),
                          e |-> st.e + 1])
            ELSE Relajar(n, dn, i + 1, st)

\* variant: entries of settled nodes are not skipped
YaVisitado_nunca(n, vis) == FALSE

\* line 38
YaVisitado(n, vis) == n \in vis

\* lines 35-39: pop an entry of a settled node and continue
Descartar ==
    /\ pc = "bucle" /\ cola_prioridad # <<>>
    /\ LET e == Head(cola_prioridad) IN
        /\ YaVisitado(e[2], visitados)
        /\ distancia_actual' = e[1] /\ vertice_actual' = e[2]
    /\ cola_prioridad' = Tail(cola_prioridad)
    /\ UNCHANGED <<grafoVars, pc, origen, destino, distancias, padre, visitados,
                   camino, actual, resultado, empujes, orden>>

\* lines 35-44: pop destino, settle it and leave the loop
AsentarDestino ==
    /\ pc = "bucle" /\ cola_prioridad # <<>>
    /\ LET e == Head(cola_prioridad) IN
        /\ ~YaVisitado(e[2], visitados)
        /\ e[2] = destino
        /\ distancia_actual' = e[1] /\ vertice_actual' = e[2]
        /\ visitados' = visitados \cup {e[2]}
        /\ orden' = Append(orden, e[2])
    /\ cola_prioridad' = Tail(cola_prioridad)
    /\ pc' = "reconstruir"
    /\ UNCHANGED <<grafoVars, origen, destino, distancias, padre,
                   camino, actual, resultado, empujes>>

\* lines 35-53: pop another node, settle it and relax its out-edges
AsentarRelajar ==
    /\ pc = "bucle" /\ cola_prioridad # <<>>
    /\ LET e == Head(cola_prioridad)
           st == Relajar(e[2], e[1], 1,
                         [d |-> distancias, p |-> padre,
                          q |-> Tail(cola_prioridad), e |-> empujes])
       IN
        /\ ~YaVisitado(e[2], visitados)
        /\ e[2] # destino
        /\ distancia_actual' = e[1] /\ vertice_actual' = e[2]
        /\ visitados' = visitados \cup {e[2]}
        /\ orden' = Append(orden, e[2])
        /\ distancias' = st.d /\ padre' = st.p
        /\ cola_prioridad' = st.q /\ empujes' = st.e
    /\ UNCHANGED <<grafoVars, pc, origen, destino, camino, actual, resultado>>

\* line 35: the frontier is empty
FinBucle ==
    /\ pc = "bucle" /\ cola_prioridad = <<>>
    /\ pc' = "reconstruir"
    /\ UNCHANGED <<grafoVars, origen, destino, distancias, padre, visitados,
                   cola_prioridad, distancia_actual, vertice_actual,
                   camino, actual, resultado, empujes, orden>>

\* variant: the test for an unreached destino is missing
SinEtiqueta_nunca(d) == FALSE

\* line 56
SinEtiqueta(d) == d = INF

\* lines 56-60
Reconstruir ==
    /\ pc = "reconstruir"
    /\ IF destino \notin DOMAIN distancias
       THEN /\ resultado' = ErrorClave /\ pc' = "fin"
            /\ UNCHANGED <<camino, actual>>
       ELSE IF SinEtiqueta(distancias[destino])
       THEN /\ resultado' = Inalcanzable /\ pc' = "fin"
            /\ UNCHANGED <<camino, actual>>
       ELSE /\ camino' = <<>> /\ actual' = destino
            /\ pc' = "camino"
            /\ UNCHANGED resultado
    /\ UNCHANGED <<grafoVars, origen, destino, distancias, padre, visitados,
                   cola_prioridad, distancia_actual, vertice_actual,
                   empujes, orden>>

\* the walk is cut when it is longer than any walk without a repeated node
MaxCamino == NumNodos + 2

\* lines 61-63
PasoCamino ==
    /\ pc = "camino" /\ actual # NONE
    /\ Len(camino) < MaxCamino
    /\ camino' = Append(camino, actual)
    /\ IF actual \notin DOMAIN padre
       THEN /\ resultado' = ErrorClave /\ pc' = "fin"
            /\ UNCHANGED actual
       ELSE /\ actual' = padre[actual]
            /\ UNCHANGED <<resultado, pc>>
    /\ UNCHANGED <<grafoVars, origen, destino, distancias, padre, visitados,
                   cola_prioridad, distancia_actual, vertice_actual,
                   empujes, orden>>

\* variant: the walk is returned as collected, destino first
Reverso_identidad(s) == s

\* line 64
Reverso(s) == [i \in 1..Len(s) |-> s[Len(s) + 1 - i]]

\* lines 64-66
Retornar ==
    /\ pc = "camino" /\ actual = NONE
    /\ camino' = Reverso(camino)
    /\ resultado' = Ruta(distancias[destino], Reverso(camino))
    /\ pc' = "fin"
    /\ UNCHANGED <<grafoVars, origen, destino, distancias, padre, visitados,
                   cola_prioridad, distancia_actual, vertice_actual,
                   actual, empujes, orden>>

PasoDijkstra ==
    \/ Descartar
    \/ AsentarDestino
    \/ AsentarRelajar
    \/ FinBucle
    \/ Reconstruir
    \/ PasoCamino
    \/ Retornar

Next ==
    \/ \E u \in Nodos, v \in Nodos, peso \in Pesos : agregar_arista(u, v, peso)
    \/ \E o \in Consultables, d \in Consultables : Iniciar(o, d)
    \/ PasoDijkstra

Spec == Init /\ [][Next]_vars

\* the interpreter runs a started call to its end
FairSpec == Spec /\ WF_vars(PasoDijkstra)


\* ====================================================================
\* Reference definitions, independent of the search
\* ====================================================================
\* the node sequences of at most NumNodos + 1 nodes that follow edges of E
\* from o to d; with non-negative weights a walk that repeats a node costs
\* at least as much as the walk without the repetition
Caminos(o, d, E) ==
    {s \in UNION {[1..k -> Consultables] : k \in 1..(NumNodos + 1)} :
        /\ s[1] = o /\ s[Len(s)] = d
        /\ \A i \in 1..(Len(s) - 1) : <<s[i], s[i + 1]>> \in E}

RECURSIVE CostoCamino(_, _)
CostoCamino(s, W) ==
    IF Len(s) < 2 THEN 0 ELSE W[<<s[1], s[2]>>] + CostoCamino(Tail(s), W)

Alcanzable(o, d, W) == Caminos(o, d, DOMAIN W) # {}

MinCosto(o, d, W) ==
    LET cs == {CostoCamino(s, W) : s \in Caminos(o, d, DOMAIN W)}
    IN CHOOSE c \in cs : \A x \in cs : c <= x

\* the weights as the calls gave them: the last weight passed for each pair
ParesLlamados == {p \in Nodos \X Nodos : historial[p] # <<>>}
UltimoPeso == [p \in ParesLlamados |-> historial[p][Len(historial[p])]]

Veces(s, x) == Cardinality({i \in 1..Len(s) : s[i] = x})

Termino == pc = "fin"
EsRuta == resultado.tipo = "retorno" /\ resultado.camino # <<>>

\* ====================================================================
\* Claims
\* ====================================================================

\* C1: for origen and destino in the node set with a directed path from
\* origen to destino, the cost dijkstra returns is the minimum over all
\* directed paths of the sum of the stored edge weights, also when the
\* loop was left early on settling destino.
C1_CostoMinimo ==
    (Termino /\ origen \in vertices /\ destino \in vertices
        /\ Alcanzable(origen, destino, pesos))
    => /\ resultado.tipo = "retorno"
       /\ resultado.costo = MinCosto(origen, destino, pesos)

\* a finished query that left the loop early with entries still on the
\* frontier, whose direct edge exists but is not the cheapest route
C1_Testigo ==
    /\ Termino /\ EsRuta
    /\ origen \in vertices /\ destino \in vertices
    /\ cola_prioridad # <<>>
    /\ <<origen, destino>> \in DOMAIN pesos
    /\ resultado.costo < pesos[<<origen, destino>>]
    /\ resultado.longitud = 3

\* C2: a returned non-empty path starts at origen, ends at destino, follows
\* edges stored in pesos, its weights sum to the returned cost, and the
\* returned length is the number of nodes of the path.
C2_CaminoValido ==
    (Termino /\ EsRuta)
    => LET c == resultado.camino IN
       /\ c[1] = origen /\ c[Len(c)] = destino
       /\ \A i \in 1..(Len(c) - 1) : <<c[i], c[i + 1]>> \in DOMAIN pesos
       /\ CostoCamino(c, pesos) = resultado.costo
       /\ resultado.longitud = Len(c)

C2_Testigo ==
    /\ Termino /\ EsRuta
    /\ resultado.longitud = 3
    /\ resultado.costo > 0
    /\ <<origen, destino>> \notin DOMAIN pesos

C4_NodoAislado ==
    (Termino /\ origen \in vertices
        /\ \A p \in ParesLlamados : destino # p[1] /\ destino # p[2])
    => resultado = Inalcanzable

\* C5: with origen outside the node set, dijkstra returns the unreachable
\* variant for every destino and raises nothing.
C5_OrigenAusente ==
    (Termino /\ origen \notin vertices) => resultado = Inalcanzable

C7_UltimoPesoGana ==
    /\ pesos = UltimoPeso
    /\ \A p \in Nodos \X Nodos : Veces(grafo[p[1]], p[2]) = Len(historial[p])
    /\ (Termino /\ EsRuta)
       => /\ \A i \in 1..(Len(resultado.camino) - 1) :
                <<resultado.camino[i], resultado.camino[i + 1]>> \in ParesLlamados
          /\ resultado.costo = CostoCamino(resultado.camino, UltimoPeso)
          /\ resultado.costo = MinCosto(origen, destino, UltimoPeso)

\* an edge of the returned route was inserted twice, with a smaller weight
\* first, and the adjacency list holds it twice
C7_Testigo ==
    /\ Termino /\ EsRuta /\ resultado.longitud = 2
    /\ LET h == historial[<<origen, destino>>] IN
        /\ Len(h) = 2 /\ h[1] < h[2]
        /\ resultado.costo = h[2]
        /\ Veces(grafo[origen], destino) = 2

\* ---- the main loop, step by step
EnBucle == pc = "bucle" /\ cola_prioridad # <<>>
SacaObsoleta == EnBucle /\ Head(cola_prioridad)[2] \in visitados
Asienta == EnBucle /\ Head(cola_prioridad)[2] \notin visitados

SinRepetidos(s) == \A i, j \in 1..Len(s) : i # j => s[i] # s[j]

\* the number of labels a step lowered
Relajaciones == Cardinality({v \in DOMAIN distancias : distancias'[v] # distancias[v]})

\* C8: within one dijkstra call no node is settled twice; popping an entry
\* of a settled node changes no label, no predecessor and pushes nothing;
\* a step pushes at most one entry per label it lowers and only for
\* out-edges of the node it settles; and the entries ever pushed number at
\* most 1 plus the agregar_arista calls made on the graph.
C8_FronteraAcotada ==
    [][/\ SinRepetidos(orden')
       /\ empujes' <= 1 + llamadas'
       /\ SacaObsoleta =>
            /\ distancias' = distancias /\ padre' = padre
            /\ visitados' = visitados /\ orden' = orden
            /\ empujes' = empujes
            /\ cola_prioridad' = Tail(cola_prioridad)
       /\ Asienta =>
            /\ empujes' - empujes <= Relajaciones
            /\ empujes' - empujes <= Len(grafo[Head(cola_prioridad)[2]])
            /\ Len(cola_prioridad') = Len(cola_prioridad) - 1 + (empujes' - empujes)
      ]_vars

\* an entry of a settled node was just popped and dropped, after three pushes
C8_Testigo ==
    /\ pc = "bucle"
    /\ vertice_actual \in visitados
    /\ distancia_actual > distancias[vertice_actual]
    /\ empujes = 1 + llamadas
    /\ Cardinality(visitados) = 3

\* C9: a node is settled with the distance popped with it, which is its
\* label and its minimum distance from origen; the label and predecessor of
\* a settled node are never changed afterwards; and nodes are settled in
\* non-decreasing order of distance.
C9_AsentadoEsFinal ==
    [][/\ Asienta =>
            LET e == Head(cola_prioridad) IN
            /\ e[1] = distancias[e[2]]
            /\ e[1] = MinCosto(origen, e[2], pesos)
            /\ distancias'[e[2]] = e[1]
       /\ pc = "bucle" =>
            \A v \in visitados :
                /\ distancias'[v] = distancias[v]
                /\ v \in DOMAIN padre => padre'[v] = padre[v]
       /\ pc' \in {"bucle", "reconstruir"} =>
            \A i, j \in 1..Len(orden') :
                i < j => distancias'[orden'[i]] <= distancias'[orden'[j]]
      ]_vars

\* three nodes settled, the last one after its label was lowered
C9_Testigo ==
    /\ pc \in {"bucle", "reconstruir"} /\ Len(orden) = 3
    /\ distancias[orden[1]] < distancias[orden[2]]
    /\ distancias[orden[2]] <= distancias[orden[3]]
    /\ empujes = 4

\* ---- termination
RECURSIVE LlegaANone(_, _)
\* following padre from n reaches NONE within k steps
LlegaANone(n, k) ==
    IF n = NONE THEN TRUE
    ELSE IF k = 0 \/ n \notin DOMAIN padre THEN FALSE
    ELSE LlegaANone(padre[n], k - 1)

SinCiclos == \A n \in DOMAIN padre : LlegaANone(n, Cardinality(DOMAIN padre))

Consulta == pc = "bucle" /\ origen \in vertices /\ destino \in vertices

\* C10: every dijkstra call on nodes of the graph terminates with a return:
\* the loop is left on settling destino or on an empty frontier, the
\* predecessor links never form a cycle, and the walk from destino ends
\* at origen.
C10_Termina ==
    /\ Consulta ~> (Termino /\ resultado.tipo = "retorno")
    /\ [](pc = "reconstruir" => (vertice_actual = destino \/ cola_prioridad = <<>>))
    /\ [](pc \in {"bucle", "reconstruir", "camino"} => SinCiclos)
    /\ []((pc = "camino" /\ actual = NONE) => camino[Len(camino)] = origen)

\* the walk has gone from destino over an intermediate node back to origen
C10_Testigo ==
    /\ pc = "camino" /\ actual = NONE
    /\ Len(camino) = 3 /\ camino[3] = origen /\ camino[1] = destino
    /\ \E p \in DOMAIN pesos : pesos[p] = 0

====
